---- MODULE Spec2Model ----
\* Link mutation route handlers (PATCH / DELETE on /link/{linkId}) over a shared
\* link store.  Every handler invocation is a process; its awaits on the store
\* are the points where invocations interleave.
EXTENDS Integers, Sequences, FiniteSets, TLC

\* ---------------------------------------------------------------- universe
Procs == {"p1", "p2"}          \* concurrently running handler invocations
Ids == {"l1", "l2"}            \* link identifiers
Users == {"u1", "u2"}          \* identities the provider can resolve
Null == "null"                 \* auth() userId of a signed-out caller
Absent == ""                   \* a missing / empty string: falsy in JS
BodyTitles == {Absent, "t"}
BodyUrls == {Absent, "x"}
BodyKeywords == {Absent, "a", "b", "c"}
MaxRequests == 2               \* requests served in one behaviour

\* `!v` of the handlers, for the values a field or identifier can take
Falsy(v) == v \in {Null, Absent}

\* ---------------------------------------------------------------- records
NoLink == [id |-> Absent, userId |-> Absent, url |-> Absent, keyword |-> Absent, title |-> Absent]

NoResponse == [status |-> 0, success |-> FALSE, error |-> Absent, link |-> NoLink]

\* NextResponse.json({ success: false, error }, { status })
JsonError(status, error) == [status |-> status, success |-> FALSE, error |-> error, link |-> NoLink]

\* NextResponse.json({ success: true, link })   (status defaults to 200)
JsonSuccess(link) == [status |-> 200, success |-> TRUE, error |-> Absent, link |-> link]

\* messages of the faults the collaborators raise
AuthFault == "auth() failed"
JsonFault == "Unexpected end of JSON input"
StoreFault == "Can't reach database server"
RecordNotFound == "Record to update/delete does not exist."
UniqueFault == "Unique constraint failed on the fields: (keyword)"

\* ---------------------------------------------------------------- store
\* prismadb.link.findUnique({ where: { id } })
FindUniqueById(s, id) == IF id \in Ids THEN s[id] ELSE NoLink

\* mutant: the look-up by keyword without its NOT { id } clause
FindUniqueByKeyword_IncludesSelf(s, keyword, notId) ==
  LET hits == {i \in Ids : s[i] # NoLink /\ s[i].keyword = keyword}
  IN IF hits = {} THEN NoLink ELSE s[CHOOSE i \in hits : TRUE]

\* prismadb.link.findUnique({ where: { keyword, NOT: { id } } })
FindUniqueByKeyword(s, keyword, notId) ==
  LET hits == {i \in Ids : s[i] # NoLink /\ s[i].keyword = keyword /\ i # notId}
  IN IF hits = {} THEN NoLink ELSE s[CHOOSE i \in hits : TRUE]

\* mutant: an update whose where clause is lost, writing every row
StoreUpdate_Many(s, id, title, keyword, url) ==
  [i \in Ids |-> IF s[i] = NoLink THEN NoLink
                 ELSE [s[i] EXCEPT !.title = title, !.keyword = keyword, !.url = url]]

\* mutant: an update whose data leaves url out
StoreUpdate_KeepsUrl(s, id, title, keyword, url) ==
  [s EXCEPT ![id] = [@ EXCEPT !.title = title, !.keyword = keyword]]

\* prismadb.link.update({ where: { id }, data: { title, keyword, url } })
StoreUpdate(s, id, title, keyword, url) ==
  [s EXCEPT ![id] = [@ EXCEPT !.title = title, !.keyword = keyword, !.url = url]]

\* mutant: a delete that reports the row and leaves it in the table
StoreDelete_Noop(s, id) == s

\* mutant: a delete whose where clause is lost, removing every row
StoreDelete_All(s, id) == [i \in Ids |-> NoLink]

\* prismadb.link.delete({ where: { id } })
StoreDelete(s, id) == [s EXCEPT ![id] = NoLink]

\* mutant: a write of a row that does not exist goes through (an upsert)
RowMissing_Never(s, id) == FALSE

\* update / delete of a row that does not exist raises in the client library
RowMissing(s, id) == s[id] = NoLink

\* Whether the table rejects a write that would give two rows one keyword.
\* The table definition is not among the sources; the design document states
\* that uniqueness rests on the handler's look-up alone and that two writes of
\* one keyword can both succeed.
UniqueConstraintViolation(s, id, keyword) == FALSE

\* ---------------------------------------------------------------- checks
\* mutant: the ownership comparison never fails
NotOwner_Never(linkFound, userId) == FALSE

\* if (linkFound.userId !== userId)  -> 403
NotOwner(linkFound, userId) == linkFound.userId # userId

\* mutant: the link identifier checked right after the identity
PatchPrelude_IdSecond(fault, userId, title, keyword, url, linkId) ==
  IF fault = "auth" THEN JsonError(500, AuthFault)
  ELSE IF fault = "json" THEN JsonError(500, JsonFault)
  ELSE IF Falsy(userId) THEN JsonError(401, "Unauthenticated.")
  ELSE IF Falsy(linkId) THEN JsonError(400, "Link ID is required.")
  ELSE IF Falsy(url) THEN JsonError(400, "URL is required.")
  ELSE IF Falsy(keyword) THEN JsonError(400, "Keyword is required.")
  ELSE IF Falsy(title) THEN JsonError(400, "Title is required.")
  ELSE NoResponse

\* PATCH, from entry to the first store call: the response of the first check
\* that fails, NoResponse when the handler goes on to look the link up.
\* fault is what the synchronous prelude raised: "auth", "json" or "none".
PatchPrelude(fault, userId, title, keyword, url, linkId) ==
  IF fault = "auth" THEN JsonError(500, AuthFault)
  ELSE IF fault = "json" THEN JsonError(500, JsonFault)
  ELSE IF Falsy(userId) THEN JsonError(401, "Unauthenticated.")
  ELSE IF Falsy(url) THEN JsonError(400, "URL is required.")
  ELSE IF Falsy(keyword) THEN JsonError(400, "Keyword is required.")
  ELSE IF Falsy(title) THEN JsonError(400, "Title is required.")
  ELSE IF Falsy(linkId) THEN JsonError(400, "Link ID is required.")
  ELSE NoResponse

\* DELETE, from entry to the first store call.
DeletePrelude(fault, userId, linkId) ==
  IF fault = "auth" THEN JsonError(500, AuthFault)
  ELSE IF Falsy(userId) THEN JsonError(401, "Unauthenticated.")
  ELSE IF Falsy(linkId) THEN JsonError(400, "Link ID is required.")
  ELSE NoResponse

\* mutant: no ownership check after the look-up
AfterFind_NoOwnerCheck(linkFound, userId) ==
  IF linkFound = NoLink THEN JsonError(404, "Link not found.")
  ELSE NoResponse

\* mutant: no existence check after the look-up
AfterFind_NoExistenceCheck(linkFound, userId) ==
  IF linkFound.userId # userId THEN JsonError(403, "Unauthorized: You do not own this link.")
  ELSE NoResponse

\* after findUnique by id: 404, 403, or NoResponse to go on
AfterFind(linkFound, userId) ==
  IF linkFound = NoLink THEN JsonError(404, "Link not found.")
  ELSE IF NotOwner(linkFound, userId) THEN JsonError(403, "Unauthorized: You do not own this link.")
  ELSE NoResponse

\* after findUnique by keyword: 400 on a hit, NoResponse to go on
AfterKeyword(currentLink) ==
  IF currentLink # NoLink THEN JsonError(400, "Please enter different keyword.")
  ELSE NoResponse

\* ---------------------------------------------------------------- creation dialog
MaxSubmits == 2                \* submits of the dialog in one behaviour
TypedUrls == {"https://a.com/p", "HTTPS://A.COM/P", "not a url"}
TypedKeywords == {"ab", "AB", "a", "a b"}
PageContents == {"<title>My Page</title>", "<title></title>", "<h1>My Page</h1>", "<TITLE>My Page</TITLE>"}
ConflictMessage == "Please enter different keyword."

\* String.prototype.toLowerCase on the strings the form can hold
ToLowerCase(v) ==
  CASE v = "HTTPS://A.COM/P" -> "https://a.com/p"
    [] v = "AB" -> "ab"
    [] OTHER -> v

\* z.string().toLowerCase().url(...): the issue of the url field, Absent when valid
UrlIssue(typed) ==
  IF ToLowerCase(typed) = "https://a.com/p" THEN Absent ELSE "Please enter a valid URL."

\* z.string().toLowerCase().min(2, ...).regex(/^[a-z0-9_-]+$/, ...): the issue
\* of the keyword field, Absent when valid
KeywordIssue(typed) ==
  LET k == ToLowerCase(typed)
  IN IF k = "a" THEN "Please enter 2 or more characters."
     ELSE IF k = "a b" THEN "Only letters, numbers, hyphens (-) and underscores (_) are allowed."
     ELSE Absent

\* the field errors the resolver reports for the typed values
SchemaErrors(typedUrl, typedKeyword) ==
  {[field |-> "url", type |-> "schema", message |-> UrlIssue(typedUrl)],
   [field |-> "keyword", type |-> "schema", message |-> KeywordIssue(typedKeyword)]}
  \ {[field |-> f, type |-> "schema", message |-> Absent] : f \in {"url", "keyword"}}

\* contents.match(/<title>(.*?)<\/title>/)?.[1]: the captured text, Null without a match
TitleMatch(contents) ==
  CASE contents = "<title>My Page</title>" -> "My Page"
    [] contents = "<title></title>" -> Absent
    [] OTHER -> Null

\* encodeURI on the titles a page can carry
EncodeURI(t) == IF t = "My Page" THEN "My%20Page" ELSE t

\* what the title look-up can come to: axios.get rejects (timeout, network),
\* the answer carries no contents, or it carries the page's contents
LookupOutcomes == {"timeout", "network error", "no contents"} \cup PageContents

\* the inner try raises: axios.get rejected, or .match was called on undefined
LookupThrows(outcome) == outcome \in {"timeout", "network error", "no contents"}

\* mutant: the title starts empty instead of as the url
LookupTitle_EmptyFallback(url, outcome) ==
  IF LookupThrows(outcome) THEN Absent
  ELSE IF Falsy(TitleMatch(outcome)) THEN Absent
  ELSE EncodeURI(TitleMatch(outcome))

\* let title = values.url; try { ... if (matches?.[1]) title = encodeURI(matches[1]) } catch { }
LookupTitle(url, outcome) ==
  IF LookupThrows(outcome) THEN url
  ELSE IF Falsy(TitleMatch(outcome)) THEN url
  ELSE EncodeURI(TitleMatch(outcome))

\* what axios.post('/api/link') can come to.  The endpoint is not among the
\* sources: like the handlers above it answers failures with a failure status
\* and { success: false, error }; the request can also fail without a response.
NoOutcome == [responded |-> FALSE, status |-> 0, success |-> FALSE, error |-> Absent]
PostOutcomes ==
  {[responded |-> TRUE, status |-> 200, success |-> TRUE, error |-> Absent],
   [responded |-> TRUE, status |-> 400, success |-> FALSE, error |-> ConflictMessage],
   [responded |-> TRUE, status |-> 401, success |-> FALSE, error |-> "Unauthenticated."],
   [responded |-> TRUE, status |-> 500, success |-> FALSE, error |-> Absent],
   [responded |-> FALSE, status |-> -1, success |-> FALSE, error |-> Absent]}

\* axios rejects when there is no response or its status is outside 2xx
AxiosRejects(o) == ~o.responded \/ o.status < 200 \/ o.status > 299

\* error.response?.data?.error  (undefined is modelled as Absent)
ErrorMessage(o) == IF o.responded THEN o.error ELSE Absent

NoToast == [variant |-> Absent, title |-> Absent, description |-> Absent]

ModalIdle == [pc |-> "idle", submits |-> 0, typedUrl |-> Absent, typedKeyword |-> Absent,
              url |-> Absent, keyword |-> Absent, title |-> Absent, loading |-> FALSE,
              fieldErrors |-> {}, toast |-> NoToast, closed |-> FALSE,
              sent |-> 0, header |-> Absent, lookup |-> Absent, created |-> NoOutcome]

\* if (response.data.success) { form.reset(); urlModal.onClose(); ...; toast success }
OnCreated(m, o) ==
  IF o.success
  THEN [m EXCEPT !.typedUrl = Absent, !.typedKeyword = Absent, !.fieldErrors = {}, !.closed = TRUE,
                 !.toast = [variant |-> "success", title |-> "Success!",
                            description |-> "Short URL has been created."]]
  ELSE m

\* mutant: the catch shows the failure toast for every error
OnRejected_ToastOnly(m, o) ==
  [m EXCEPT !.toast = [variant |-> "destructive", title |-> "Uh oh! Something went wrong.",
                       description |-> IF Falsy(ErrorMessage(o))
                                       THEN "There was a problem with your request."
                                       ELSE ErrorMessage(o)]]

\* catch (error): the keyword's field error for the conflict message, the failure toast otherwise
OnRejected(m, o) ==
  IF ErrorMessage(o) = ConflictMessage
  THEN [m EXCEPT !.fieldErrors = {[field |-> "keyword", type |-> "manual", message |-> ErrorMessage(o)]}]
  ELSE [m EXCEPT !.toast = [variant |-> "destructive", title |-> "Uh oh! Something went wrong.",
                            description |-> IF Falsy(ErrorMessage(o))
                                            THEN "There was a problem with your request."
                                            ELSE ErrorMessage(o)]]

\* mutant: setLoading(false) sits at the end of the try block, not in a finally
AfterCreate_NoFinally(m, o) ==
  IF AxiosRejects(o) THEN [OnRejected(m, o) EXCEPT !.pc = "idle"]
  ELSE [OnCreated(m, o) EXCEPT !.pc = "idle", !.loading = FALSE]

\* onSubmit from the settling of axios.post to its end: the success branch or
\* the catch, then finally { setLoading(false) }
AfterCreate(m, o) ==
  [(IF AxiosRejects(o) THEN OnRejected(m, o) ELSE OnCreated(m, o)) EXCEPT !.pc = "idle", !.loading = FALSE]

\* ---------------------------------------------------------------- state
VARIABLES
  store,     \* the Link table: Ids -> record, NoLink where no row exists
  req,       \* per invocation: position, inputs, locals, response
  served,    \* requests started so far
  modal      \* the creation dialog: position of onSubmit, form, loading, effects

vars == <<store, req, served, modal>>

Idle == [pc |-> "idle", method |-> Absent, fault |-> "none", userId |-> Null, linkId |-> Absent,
         title |-> Absent, keyword |-> Absent, url |-> Absent,
         linkFound |-> NoLink, currentLink |-> NoLink, writes |-> 0, response |-> NoResponse]

InitStore ==
  [i \in Ids |-> IF i = "l1"
                 THEN [id |-> "l1", userId |-> "u1", url |-> "x0", keyword |-> "a", title |-> "t0"]
                 ELSE [id |-> "l2", userId |-> "u2", url |-> "x0", keyword |-> "b", title |-> "t0"]]

Init ==
  /\ store = InitStore
  /\ req = [p \in Procs |-> Idle]
  /\ served = 0
  /\ modal = ModalIdle

\* return of the handler: the response is recorded and the invocation is over
Return(r, response) == [r EXCEPT !.pc = "done", !.response = response]

\* mutant: the catch answers with a fixed text instead of error.message
Catch_FixedText(r, message) == Return(r, JsonError(500, "Internal Server Error"))

\* catch (error) { return NextResponse.json({ success: false, error: error.message }, { status: 500 }) }
Catch(r, message) == Return(r, JsonError(500, message))

\* ---------------------------------------------------------------- PATCH
\* auth(), await req.json(), the presence checks
PATCH(p) ==
  /\ req[p].pc = "idle"
  /\ served < MaxRequests
  /\ \E fault \in {"none", "auth", "json"}, userId \in Users \cup {Null}, linkId \in Ids \cup {Absent},
        title \in BodyTitles, keyword \in BodyKeywords, url \in BodyUrls :
       LET r == [Idle EXCEPT !.method = "PATCH", !.fault = fault, !.userId = userId, !.linkId = linkId,
                             !.title = title, !.keyword = keyword, !.url = url]
           out == PatchPrelude(fault, userId, title, keyword, url, linkId)
       IN req' = [req EXCEPT ![p] = IF out # NoResponse THEN Return(r, out)
                                    ELSE [r EXCEPT !.pc = "patch_find"]]
  /\ served' = served + 1
  /\ UNCHANGED <<store, modal>>

\* mutant: the update is written as soon as the link is found, before the checks
PatchFind_WriteFirst(p) ==
  /\ req[p].pc = "patch_find"
  /\ LET linkFound == FindUniqueById(store, req[p].linkId)
         r == [req[p] EXCEPT !.linkFound = linkFound]
         out == AfterFind(linkFound, req[p].userId)
     IN /\ req' = [req EXCEPT ![p] = IF out # NoResponse THEN Return(r, out)
                                     ELSE [r EXCEPT !.pc = "patch_keyword"]]
        /\ store' = IF linkFound = NoLink THEN store
                    ELSE StoreUpdate(store, req[p].linkId, req[p].title, req[p].keyword, req[p].url)
  /\ UNCHANGED <<served, modal>>

\* const linkFound = await findUnique({ where: { id } }); 404 / 403 checks
PatchFind(p) ==
  /\ req[p].pc = "patch_find"
  /\ \E raises \in BOOLEAN :
       IF raises
       THEN req' = [req EXCEPT ![p] = Catch(req[p], StoreFault)]
       ELSE LET linkFound == FindUniqueById(store, req[p].linkId)
                r == [req[p] EXCEPT !.linkFound = linkFound]
                out == AfterFind(linkFound, req[p].userId)
            IN req' = [req EXCEPT ![p] = IF out # NoResponse THEN Return(r, out)
                                         ELSE [r EXCEPT !.pc = "patch_keyword"]]
  /\ UNCHANGED <<store, served, modal>>

\* mutant: a keyword look-up that raises sends the handler back to its first look-up
PatchKeyword_Retry(p) ==
  /\ req[p].pc = "patch_keyword"
  /\ \E raises \in BOOLEAN :
       IF raises
       THEN req' = [req EXCEPT ![p] = [req[p] EXCEPT !.pc = "patch_find"]]
       ELSE LET currentLink == FindUniqueByKeyword(store, req[p].keyword, req[p].linkFound.id)
                r == [req[p] EXCEPT !.currentLink = currentLink]
                out == AfterKeyword(currentLink)
            IN req' = [req EXCEPT ![p] = IF out # NoResponse THEN Return(r, out)
                                         ELSE [r EXCEPT !.pc = "patch_update"]]
  /\ UNCHANGED <<store, served, modal>>

\* const currentLink = await findUnique({ where: { keyword, NOT: { id } } }); 400 check
PatchKeyword(p) ==
  /\ req[p].pc = "patch_keyword"
  /\ \E raises \in BOOLEAN :
       IF raises
       THEN req' = [req EXCEPT ![p] = Catch(req[p], StoreFault)]
       ELSE LET currentLink == FindUniqueByKeyword(store, req[p].keyword, req[p].linkFound.id)
                r == [req[p] EXCEPT !.currentLink = currentLink]
                out == AfterKeyword(currentLink)
            IN req' = [req EXCEPT ![p] = IF out # NoResponse THEN Return(r, out)
                                         ELSE [r EXCEPT !.pc = "patch_update"]]
  /\ UNCHANGED <<store, served, modal>>

\* const link = await update(...); return { success: true, link }
PatchUpdate(p) ==
  /\ req[p].pc = "patch_update"
  /\ \E raises \in BOOLEAN :
       IF raises
       THEN /\ req' = [req EXCEPT ![p] = Catch(req[p], StoreFault)]
            /\ UNCHANGED store
       ELSE IF RowMissing(store, req[p].linkId)
       THEN /\ req' = [req EXCEPT ![p] = Catch(req[p], RecordNotFound)]
            /\ UNCHANGED store
       ELSE IF UniqueConstraintViolation(store, req[p].linkId, req[p].keyword)
       THEN /\ req' = [req EXCEPT ![p] = Catch(req[p], UniqueFault)]
            /\ UNCHANGED store
       ELSE /\ store' = StoreUpdate(store, req[p].linkId, req[p].title, req[p].keyword, req[p].url)
            /\ req' = [req EXCEPT ![p] = Return([req[p] EXCEPT !.writes = @ + 1],
                                                JsonSuccess(store'[req[p].linkId]))]
  /\ UNCHANGED <<served, modal>>

\* ---------------------------------------------------------------- DELETE
\* auth(), the identity and identifier checks
DELETE(p) ==
  /\ req[p].pc = "idle"
  /\ served < MaxRequests
  /\ \E fault \in {"none", "auth"}, userId \in Users \cup {Null}, linkId \in Ids \cup {Absent} :
       LET r == [Idle EXCEPT !.method = "DELETE", !.fault = fault, !.userId = userId, !.linkId = linkId]
           out == DeletePrelude(fault, userId, linkId)
       IN req' = [req EXCEPT ![p] = IF out # NoResponse THEN Return(r, out)
                                    ELSE [r EXCEPT !.pc = "delete_find"]]
  /\ served' = served + 1
  /\ UNCHANGED <<store, modal>>

\* const linkFound = await findUnique({ where: { id } }); 404 / 403 checks
DeleteFind(p) ==
  /\ req[p].pc = "delete_find"
  /\ \E raises \in BOOLEAN :
       IF raises
       THEN req' = [req EXCEPT ![p] = Catch(req[p], StoreFault)]
       ELSE LET linkFound == FindUniqueById(store, req[p].linkId)
                r == [req[p] EXCEPT !.linkFound = linkFound]
                out == AfterFind(linkFound, req[p].userId)
            IN req' = [req EXCEPT ![p] = IF out # NoResponse THEN Return(r, out)
                                         ELSE [r EXCEPT !.pc = "delete_delete"]]
  /\ UNCHANGED <<store, served, modal>>

\* const link = await delete(...); return { success: true, link }
DeleteDelete(p) ==
  /\ req[p].pc = "delete_delete"
  /\ \E raises \in BOOLEAN :
       IF raises
       THEN /\ req' = [req EXCEPT ![p] = Catch(req[p], StoreFault)]
            /\ UNCHANGED store
       ELSE IF RowMissing(store, req[p].linkId)
       THEN /\ req' = [req EXCEPT ![p] = Catch(req[p], RecordNotFound)]
            /\ UNCHANGED store
       ELSE /\ store' = StoreDelete(store, req[p].linkId)
            /\ req' = [req EXCEPT ![p] = Return([req[p] EXCEPT !.writes = @ + 1],
                                                JsonSuccess(store[req[p].linkId]))]
  /\ UNCHANGED <<served, modal>>

\* the response has gone out; the runtime can run the next invocation
Respond(p) ==
  /\ req[p].pc = "done"
  /\ req' = [req EXCEPT ![p] = Idle]
  /\ UNCHANGED <<store, served, modal>>

Next ==
  \E p \in Procs :
    \/ PATCH(p)
    \/ PatchFind(p)
    \/ PatchKeyword(p)
    \/ PatchUpdate(p)
    \/ DELETE(p)
    \/ DeleteFind(p)
    \/ DeleteDelete(p)
    \/ Respond(p)

\* an awaited store call of invocation p returns or raises
StoreCallEnds(p) ==
  PatchFind(p) \/ PatchKeyword(p) \/ PatchUpdate(p) \/ DeleteFind(p) \/ DeleteDelete(p)

Spec == Init /\ [][Next]_vars

\* ---------------------------------------------------------------- creation dialog, onSubmit
\* form.handleSubmit(onSubmit): the resolver's errors, or onSubmit up to its
\* first await: setLoading(true); let title = values.url; axios.get(...)
HandleSubmit ==
  /\ modal.pc = "idle"
  /\ ~modal.loading
  /\ modal.submits < MaxSubmits
  /\ \E typedUrl \in TypedUrls, typedKeyword \in TypedKeywords :
       LET m == [ModalIdle EXCEPT !.submits = modal.submits + 1,
                                  !.typedUrl = typedUrl, !.typedKeyword = typedKeyword]
           errors == SchemaErrors(typedUrl, typedKeyword)
       IN modal' = IF errors # {} THEN [m EXCEPT !.fieldErrors = errors]
                   ELSE [m EXCEPT !.pc = "lookup", !.loading = TRUE,
                                  !.url = ToLowerCase(typedUrl), !.keyword = ToLowerCase(typedKeyword),
                                  !.title = ToLowerCase(typedUrl)]
  /\ UNCHANGED <<store, req, served>>

\* the title look-up settles; the title is decided and axios.post is issued
\* with it in the 'long-url-title' header
TitleLookupSettles ==
  /\ modal.pc = "lookup"
  /\ \E o \in LookupOutcomes :
       LET title == LookupTitle(modal.url, o)
       IN modal' = [modal EXCEPT !.pc = "post", !.lookup = o, !.title = title,
                                 !.sent = @ + 1, !.header = title]
  /\ UNCHANGED <<store, req, served>>

\* axios.post settles; the success branch or the catch runs, then the finally
CreateSettles ==
  /\ modal.pc = "post"
  /\ \E o \in PostOutcomes : modal' = AfterCreate([modal EXCEPT !.created = o], o)
  /\ UNCHANGED <<store, req, served>>

ModalNext == HandleSubmit \/ TitleLookupSettles \/ CreateSettles

ModalSpec == Init /\ [][ModalNext]_vars

\* every awaited store call eventually returns or raises
FairSpec == Spec /\ \A p \in Procs : WF_vars(StoreCallEnds(p))

\* ---------------------------------------------------------------- helpers of the properties
Done(p) == req[p].pc = "done"

\* the step in which invocation p returns its response
Completes(p) == req[p].pc # "done" /\ req'[p].pc = "done"

\* the step in which invocation p gets the result of its findUnique by id
FindReturns(p) ==
  /\ req[p].pc \in {"patch_find", "delete_find"}
  /\ req'[p] # req[p]
  /\ req'[p].response.status # 500

\* the step in which invocation p gets the result of its findUnique by keyword
KeywordReturns(p) ==
  /\ req[p].pc = "patch_keyword"
  /\ req'[p] # req[p]
  /\ req'[p].response.status # 500

Forbidden == JsonError(403, "Unauthorized: You do not own this link.")
NotFound == JsonError(404, "Link not found.")
Conflict == JsonError(400, "Please enter different keyword.")

\* some other row than id holds keyword
HeldByOther(s, id, keyword) == \E i \in Ids \ {id} : s[i] # NoLink /\ s[i].keyword = keyword

\* ---------------------------------------------------------------- C1
\* C1: every write that reaches the store (a changed or removed row, or a
\* link.update / link.delete call that was applied) is issued by an invocation
\* whose resolved identity is a real identity equal to the userId the row had
\* when it was written; no other step changes any row.
C1_OwnerOnlyWrites ==
  [][/\ \A i \in Ids : store'[i] # store[i] =>
           \E p \in Procs : /\ req'[p].writes = req[p].writes + 1
                            /\ req[p].linkId = i
                            /\ req[p].userId \in Users
                            /\ req[p].userId = store[i].userId
     /\ \A p \in Procs : req'[p].writes > req[p].writes =>
           /\ req[p].userId \in Users
           /\ req[p].userId = store[req[p].linkId].userId]_vars

\* an owner's write was applied while another identity's request on the same link was refused
C1_Witness ==
  \E p, q \in Procs :
    /\ Done(p) /\ req[p].writes = 1
    /\ Done(q) /\ req[q].linkId = req[p].linkId /\ req[q].userId \in Users \ {req[p].userId}
    /\ req[q].response.status = 403

\* ---------------------------------------------------------------- C2
\* C2: whenever the look-up by id of an update or delete returns an existing
\* link whose userId differs from the caller's resolved identity, the request
\* ends right there with status 403, success=false, and the store is left as
\* it was; whether the requested keyword is free or taken plays no part.
C2_NonOwner403 ==
  [][\A p \in Procs :
       (/\ FindReturns(p)
        /\ store[req[p].linkId] # NoLink
        /\ store[req[p].linkId].userId # req[p].userId)
       => /\ Done(p)'
          /\ req'[p].response = Forbidden
          /\ req'[p].writes = 0
          /\ store' = store]_vars

\* a non-owner's update with every field valid and a keyword nobody holds was refused,
\* and so was a non-owner's delete
C2_Witness ==
  \E p, q \in Procs :
    /\ Done(p) /\ req[p].method = "PATCH" /\ req[p].response.status = 403
    /\ req[p].keyword = "c" /\ req[p].title = "t" /\ req[p].url = "x"
    /\ ~HeldByOther(store, req[p].linkId, "c")
    /\ store = InitStore
    /\ Done(q) /\ req[q].method = "DELETE" /\ req[q].response.status = 403

\* ---------------------------------------------------------------- C3
\* C3: an update or delete whose caller cannot be resolved (auth() gives no
\* userId) ends with status 401 and writes nothing, whatever its body,
\* link identifier and the store are.
C3_Unauthenticated401 ==
  \A p \in Procs :
    (Done(p) /\ req[p].fault # "auth" /\ req[p].userId = Null)
    => (req[p].response.status = 401 /\ req[p].writes = 0)

C4_Race ==
  \E p, q \in Procs :
    /\ p # q /\ Done(p) /\ Done(q)
    /\ req[p].method = "PATCH" /\ req[q].method = "PATCH"
    /\ req[p].response.status = 200 /\ req[q].response.status = 200
    /\ req[p].linkId # req[q].linkId /\ req[p].keyword = req[q].keyword

\* ---------------------------------------------------------------- C5
\* C5: in an update by the owner with url, keyword and title present, when the
\* keyword look-up returns: if a link with a different id holds the requested
\* keyword the request ends with status 400 'Please enter different keyword.'
\* and the store is left as it was; if no other link holds it (in particular
\* when it is the targeted link's own keyword) the request goes on to the
\* write, and an update of the link's own keyword that ends without a fault
\* and without another holder ends with success.
C5_KeywordConflict ==
  /\ [][\A p \in Procs :
          KeywordReturns(p) =>
            IF HeldByOther(store, req[p].linkId, req[p].keyword)
            THEN /\ Done(p)' /\ req'[p].response = Conflict
                 /\ req'[p].writes = 0 /\ store' = store
            ELSE req'[p].pc = "patch_update"]_vars
  /\ [](\A p \in Procs :
          (/\ Done(p) /\ req[p].method = "PATCH"
           /\ req[p].linkFound # NoLink /\ req[p].linkFound.userId = req[p].userId
           /\ req[p].keyword = req[p].linkFound.keyword
           /\ req[p].response.status # 500)
          => \/ req[p].response.status = 200
             \/ /\ req[p].response = Conflict
                /\ req[p].currentLink # NoLink
                /\ req[p].currentLink.id # req[p].linkId
                /\ req[p].currentLink.keyword = req[p].keyword)

\* one owner's update to a keyword another link holds was refused and left the
\* row alone, and an owner's update keeping the link's own keyword succeeded
C5_Witness ==
  \E p, q \in Procs :
    /\ Done(p) /\ req[p].method = "PATCH" /\ req[p].response = Conflict
    /\ store[req[p].linkId] = InitStore[req[p].linkId]
    /\ Done(q) /\ req[q].method = "PATCH" /\ req[q].response.status = 200
    /\ req[q].keyword = InitStore[req[q].linkId].keyword

\* ---------------------------------------------------------------- C6
\* C6: whenever the look-up by id of an update or delete returns and the store
\* holds no link with the requested identifier, the request ends with status
\* 404 and the store is left as it was.
C6_Unknown404 ==
  [][\A p \in Procs :
       (FindReturns(p) /\ store[req[p].linkId] = NoLink)
       => /\ Done(p)'
          /\ req'[p].response = NotFound
          /\ req'[p].writes = 0
          /\ store' = store]_vars

\* a request on an identifier whose link an earlier delete removed got 404
C6_Witness ==
  \E p \in Procs :
    /\ Done(p) /\ req[p].response.status = 404
    /\ req[p].linkId \in Ids /\ store[req[p].linkId] = NoLink
    /\ served = MaxRequests

\* ---------------------------------------------------------------- C7
\* what the remaining checks answer once the presence checks have passed:
\* link exists (404), caller owns it (403), keyword not held by another (400)
C7_Rest(r) ==
  IF r.linkFound = NoLink THEN <<404, "Link not found.">>
  ELSE IF r.linkFound.userId # r.userId THEN <<403, "Unauthorized: You do not own this link.">>
  ELSE IF r.method = "PATCH" /\ r.currentLink # NoLink THEN <<400, "Please enter different keyword.">>
  ELSE <<200, Absent>>

\* the answer of the first failing precondition; idSecond says whether an
\* update checks the link identifier right after the identity (as a delete
\* does) or after url, keyword and title
C7_FirstFailure(r, idSecond) ==
  IF Falsy(r.userId) THEN <<401, "Unauthenticated.">>
  ELSE IF (r.method = "DELETE" \/ idSecond) /\ Falsy(r.linkId) THEN <<400, "Link ID is required.">>
  ELSE IF r.method = "PATCH" /\ Falsy(r.url) THEN <<400, "URL is required.">>
  ELSE IF r.method = "PATCH" /\ Falsy(r.keyword) THEN <<400, "Keyword is required.">>
  ELSE IF r.method = "PATCH" /\ Falsy(r.title) THEN <<400, "Title is required.">>
  ELSE IF Falsy(r.linkId) THEN <<400, "Link ID is required.">>
  ELSE C7_Rest(r)

\* C7 as stated: every request that ends without a fault answers with the first
\* failing precondition in the order identity, link identifier, url, keyword,
\* title, exists, owner, keyword; a delete the same without the field and
\* keyword checks.
C7_StatedOrder ==
  \A p \in Procs :
    (Done(p) /\ req[p].response.status # 500)
    => <<req[p].response.status, req[p].response.error>> = C7_FirstFailure(req[p], TRUE)

\* C7 as amended: every request that ends without a fault answers with the
\* first failing precondition in the order identity, url, keyword, title, link
\* identifier, exists, owner, keyword for an update, and identity, link
\* identifier, exists, owner for a delete.
C7_CodeOrder ==
  \A p \in Procs :
    (Done(p) /\ req[p].response.status # 500)
    => <<req[p].response.status, req[p].response.error>> = C7_FirstFailure(req[p], FALSE)

\* an authenticated update with neither link identifier nor url was answered 'URL is required.'
C7_Witness ==
  \E p \in Procs :
    /\ Done(p) /\ req[p].method = "PATCH" /\ req[p].fault = "none" /\ req[p].userId \in Users
    /\ req[p].linkId = Absent /\ req[p].url = Absent
    /\ req[p].response = JsonError(400, "URL is required.")

\* ---------------------------------------------------------------- C8
\* C8: the step in which a request returns success applied exactly one write
\* (its one link.update or link.delete, on its own link, every other row
\* untouched), and the step in which a request returns 401, 400, 404 or 403
\* applied none and leaves the store as it was; no request writes twice.
C8_OneMutation ==
  [][\A p \in Procs :
       /\ req'[p].writes <= 1
       /\ Completes(p) =>
            /\ req'[p].response.status = 200 =>
                 /\ req[p].writes = 0 /\ req'[p].writes = 1
                 /\ \A i \in Ids \ {req[p].linkId} : store'[i] = store[i]
            /\ req'[p].response.status \in {401, 400, 404, 403} =>
                 /\ req'[p].writes = 0
                 /\ store' = store]_vars

\* one request succeeded with its single write, another failed a precondition with none
C8_Witness ==
  \E p, q \in Procs :
    /\ Done(p) /\ req[p].response.status = 200 /\ req[p].writes = 1
    /\ store # InitStore
    /\ Done(q) /\ req[q].response.status \in {401, 400, 404, 403} /\ req[q].writes = 0

\* ---------------------------------------------------------------- C9
\* C9: the step in which an update returns status 200 leaves the identified
\* record with title, keyword and url equal to the request body's, and the
\* link of the response is that record.
C9_UpdateResult ==
  [][\A p \in Procs :
       (Completes(p) /\ req[p].method = "PATCH" /\ req'[p].response.status = 200)
       => /\ store'[req[p].linkId].title = req[p].title
          /\ store'[req[p].linkId].keyword = req[p].keyword
          /\ store'[req[p].linkId].url = req[p].url
          /\ store'[req[p].linkId].id = req[p].linkId
          /\ req'[p].response.link = store'[req[p].linkId]
          /\ req'[p].response.success]_vars

\* an update that changed title, keyword and url returned 200 with the new record
C9_Witness ==
  \E p \in Procs :
    /\ Done(p) /\ req[p].method = "PATCH" /\ req[p].response.status = 200
    /\ req[p].response.link.keyword = "c" /\ req[p].response.link.title = "t"
    /\ req[p].response.link.url = "x"
    /\ store[req[p].linkId] = req[p].response.link

\* ---------------------------------------------------------------- C10
\* C10: the step in which a delete returns status 200 leaves the store without
\* a link of the requested identifier and every other link as it was, and the
\* link of the response is the record as it was right before the step.
C10_DeleteResult ==
  [][\A p \in Procs :
       (Completes(p) /\ req[p].method = "DELETE" /\ req'[p].response.status = 200)
       => /\ store'[req[p].linkId] = NoLink
          /\ \A i \in Ids \ {req[p].linkId} : store'[i] = store[i]
          /\ req'[p].response.link = store[req[p].linkId]
          /\ req'[p].response.link.id = req[p].linkId
          /\ req'[p].response.success]_vars

\* a delete returned 200 with the record an earlier update had written, and the row is gone
C10_Witness ==
  \E p \in Procs :
    /\ Done(p) /\ req[p].method = "DELETE" /\ req[p].response.status = 200
    /\ req[p].response.link.keyword = "c"
    /\ store[req[p].linkId] = NoLink
    /\ \E i \in Ids : store[i] # NoLink

\* ---------------------------------------------------------------- C11
\* C11: a link keeps its id and its userId in every step from the first state
\* that holds it to its deletion, and the step in which an update is applied
\* changes nothing but title, keyword and url of the identified record: its id,
\* its userId and every other record stay as they were.
C11_IdOwnerImmutable ==
  [][/\ \A i \in Ids :
          (store[i] # NoLink /\ store'[i] # NoLink)
          => (store'[i].id = store[i].id /\ store'[i].userId = store[i].userId)
     /\ \A p \in Procs :
          (req[p].method = "PATCH" /\ req'[p].writes = req[p].writes + 1)
          => /\ store'[req[p].linkId].id = store[req[p].linkId].id
             /\ store'[req[p].linkId].userId = store[req[p].linkId].userId
             /\ \A i \in Ids \ {req[p].linkId} : store'[i] = store[i]]_vars

\* an applied update changed title, keyword and url of its record, which kept
\* id and userId, while the other record is as it was at the start
C11_Witness ==
  \E p \in Procs :
    /\ Done(p) /\ req[p].method = "PATCH" /\ req[p].writes = 1
    /\ store[req[p].linkId].title # InitStore[req[p].linkId].title
    /\ store[req[p].linkId].keyword # InitStore[req[p].linkId].keyword
    /\ store[req[p].linkId].url # InitStore[req[p].linkId].url
    /\ store[req[p].linkId].id = req[p].linkId
    /\ store[req[p].linkId].userId = InitStore[req[p].linkId].userId
    /\ \E i \in Ids \ {req[p].linkId} : store[i] = InitStore[i]

\* ---------------------------------------------------------------- C12
\* positions in which an invocation waits for a store call
StoreCallPcs == {"patch_find", "patch_keyword", "patch_update", "delete_find", "delete_delete"}

\* a response of the documented shape: success with the link record and status
\* 200, or failure with an error string and one of the failure statuses
WellFormed(response) ==
  IF response.success
  THEN response.status = 200 /\ response.link # NoLink /\ response.error = Absent
  ELSE response.status \in {400, 401, 403, 404, 500} /\ response.error # Absent /\ response.link = NoLink

\* C12: no invocation ends in an unhandled fault.  A raise of auth() or of
\* req.json() ends the request with status 500, success=false and the fault's
\* message; a store call that raises (the store being down, or an update or
\* delete of a row that is gone) ends it with status 500, success=false and the
\* fault's message, the store untouched; every step of a store call either
\* moves the handler on or returns a response; and every response is success
\* with the link or failure with an error string.
C12_FaultsHandled ==
  /\ [](\A p \in Procs :
          Done(p) =>
            /\ WellFormed(req[p].response)
            /\ req[p].fault = "auth" => req[p].response = JsonError(500, AuthFault)
            /\ req[p].fault = "json" => req[p].response = JsonError(500, JsonFault))
  /\ [][\A p \in Procs :
          (req[p].pc \in StoreCallPcs /\ req'[p] # req[p])
          => /\ req'[p].pc \in (StoreCallPcs \ {req[p].pc}) \cup {"done"}
             /\ (req[p].pc \in {"patch_update", "delete_delete"} /\ store[req[p].linkId] = NoLink)
                => /\ req'[p].response \in {JsonError(500, RecordNotFound), JsonError(500, StoreFault)}
                   /\ store' = store
             /\ req'[p].response.status = 500
                => /\ req'[p].response \in {JsonError(500, StoreFault), JsonError(500, RecordNotFound),
                                              JsonError(500, UniqueFault)}
                   /\ store' = store]_vars

\* an update whose row a concurrent delete had removed ended with 500 and the
\* store's message, next to the delete's success
C12_Witness ==
  \E p, q \in Procs :
    /\ Done(p) /\ req[p].method = "PATCH" /\ req[p].response = JsonError(500, RecordNotFound)
    /\ Done(q) /\ req[q].method = "DELETE" /\ req[q].response.success
    /\ req[q].response.link # NoLink

\* ---------------------------------------------------------------- C15
\* how far a handler has come: each store call has its own position
Rank(pc) ==
  CASE pc = "idle" -> 0
    [] pc \in {"patch_find", "delete_find"} -> 1
    [] pc = "patch_keyword" -> 2
    [] pc \in {"patch_update", "delete_delete"} -> 3
    [] pc = "done" -> 4

\* C15: given that every store call eventually returns or raises, every
\* invocation that waits for a store call eventually returns its response;
\* every step of an invocation moves it to a later position, so that the
\* look-up by id, the look-up by keyword and the write are each issued at most
\* once and none is retried; a step yields a response exactly when it ends the
\* invocation; and a returned response is never replaced.
C15_TerminatesNoRetry ==
  /\ \A p \in Procs : (req[p].pc \in StoreCallPcs) ~> Done(p)
  /\ [][\A p \in Procs :
          /\ (req[p].pc # "done" /\ req'[p] # req[p])
             => /\ Rank(req'[p].pc) > Rank(req[p].pc)
                /\ req'[p].method = IF req[p].pc = "idle" THEN req'[p].method ELSE req[p].method
                /\ (req'[p].response # NoResponse) = (req'[p].pc = "done")
                /\ req'[p].writes <= 1
          /\ (req[p].pc = "done" /\ req'[p] # req[p]) => req'[p] = Idle]_vars

\* an update went through all three store calls and returned, while another
\* invocation ended on a store call that raised
C15_Witness ==
  \E p, q \in Procs :
    /\ Done(p) /\ req[p].method = "PATCH" /\ req[p].response.status = 200
    /\ Done(q) /\ req[q].response = JsonError(500, StoreFault)

\* ---------------------------------------------------------------- C16
\* C16: of the delete requests on one link, in any interleaving, at most one
\* returns 200.  The step that returns 200 is the one step that removes the
\* row, no other step removes a row, and a removed row never comes back, so
\* the link is removed exactly once.  A delete whose write finds the row gone
\* returns 500; a delete by the link's owner returns 200, 404 or 500, so next
\* to a successful one every other delete by the owner returned 404 or 500.
C16_DeleteOnce ==
  /\ [](\A p, q \in Procs :
          (/\ p # q /\ Done(p) /\ Done(q)
           /\ req[p].method = "DELETE" /\ req[q].method = "DELETE"
           /\ req[p].linkId = req[q].linkId
           /\ req[p].response.status = 200)
          => /\ req[q].response.status # 200
             /\ (req[q].fault = "none" /\ req[q].userId = req[p].userId)
                => req[q].response.status \in {404, 500})
  /\ [][/\ \A p \in Procs :
             (Completes(p) /\ req[p].method = "DELETE" /\ req'[p].response.status = 200)
             => (store[req[p].linkId] # NoLink /\ store'[req[p].linkId] = NoLink)
        /\ \A p \in Procs :
             (req[p].pc = "delete_delete" /\ req'[p] # req[p] /\ store[req[p].linkId] = NoLink)
             => (req'[p].response.status = 500 /\ store' = store)
        /\ \A i \in Ids :
             (store[i] # NoLink /\ store'[i] = NoLink)
             => \E p \in Procs : /\ Completes(p) /\ req[p].method = "DELETE"
                                 /\ req[p].linkId = i /\ req'[p].response.status = 200
        /\ \A i \in Ids : store[i] = NoLink => store'[i] = NoLink]_vars

\* two deletes by the owner both passed the look-up; one returned 200, the
\* other found the row gone at its write and returned 500
C16_Witness ==
  \E p, q \in Procs :
    /\ Done(p) /\ req[p].method = "DELETE" /\ req[p].response.status = 200
    /\ Done(q) /\ req[q].method = "DELETE" /\ req[q].linkId = req[p].linkId
    /\ req[q].linkFound # NoLink /\ req[q].linkFound.userId = req[q].userId
    /\ req[q].response = JsonError(500, RecordNotFound)
    /\ store[req[p].linkId] = NoLink

\* ---------------------------------------------------------------- C17
\* C17: a link that has been deleted is never in the store again.  An update
\* that passed its existence and ownership checks and reaches its write after
\* a delete removed the row does not re-create it: the write raises, the
\* request returns 500 with success=false, and the store stays as it was.
C17_NoResurrection ==
  [][/\ \A i \in Ids : store[i] = NoLink => store'[i] = NoLink
     /\ \A p \in Procs :
          (req[p].pc = "patch_update" /\ req'[p] # req[p] /\ store[req[p].linkId] = NoLink)
          => /\ Done(p)'
             /\ req'[p].response.status = 500
             /\ ~req'[p].response.success
             /\ req'[p].writes = 0
             /\ store' = store]_vars

\* an update by the owner found its link and a free keyword, a delete then
\* removed the row, and the update's write raised: 500, the row still gone
C17_Witness ==
  \E p, q \in Procs :
    /\ Done(p) /\ req[p].method = "PATCH"
    /\ req[p].linkFound # NoLink /\ req[p].linkFound.userId = req[p].userId
    /\ req[p].currentLink = NoLink
    /\ req[p].response = JsonError(500, RecordNotFound)
    /\ store[req[p].linkId] = NoLink
    /\ Done(q) /\ req[q].method = "DELETE" /\ req[q].linkId = req[p].linkId
    /\ req[q].response.status = 200

\* ---------------------------------------------------------------- C13
\* the ways the title look-up fails: timeout, network error, an answer
\* without contents, contents without a <title>...</title> match
LookupFailures == {"timeout", "network error", "no contents", "<h1>My Page</h1>", "<TITLE>My Page</TITLE>"}

C14_ConflictOnField ==
  (modal.pc = "idle" /\ modal.created # NoOutcome /\ ~modal.created.success)
  => IF modal.created.responded /\ modal.created.error = "Please enter different keyword."
     THEN /\ modal.fieldErrors = {[field |-> "keyword", type |-> "manual",
                                   message |-> "Please enter different keyword."]}
          /\ modal.toast = NoToast
     ELSE /\ modal.toast.variant = "destructive"
          /\ modal.toast.title = "Uh oh! Something went wrong."
          /\ modal.fieldErrors = {}

\* a submit whose title was found ended on the conflict answer: the keyword
\* input carries the message and no toast is shown
C14_Witness ==
  /\ modal.pc = "idle" /\ modal.header = "My%20Page"
  /\ modal.created.status = 400 /\ modal.created.error = ConflictMessage
  /\ \E e \in modal.fieldErrors : e.field = "keyword" /\ e.message = ConflictMessage
  /\ modal.toast = NoToast

\* ---------------------------------------------------------------- C18
\* C18: the loading flag is true exactly while a submit is running (from the
\* start of onSubmit to its end) and false otherwise: before any submit, after
\* a submit the resolver refused, and after a submit ended by a created link,
\* by the conflict answer, by any other failure of the creation request, each
\* of them with the title look-up failed or not.
C18_LoadingWhileSubmitting ==
  /\ modal.loading = (modal.pc \in {"lookup", "post"})
  /\ (modal.pc = "idle" /\ modal.created # NoOutcome) => ~modal.loading

\* a submit whose look-up failed and whose creation request got no answer has
\* ended, with the failure toast, and loading is false
C18_Witness ==
  /\ modal.pc = "idle" /\ modal.lookup = "network error"
  /\ ~modal.created.responded /\ modal.created.status = -1
  /\ modal.toast.variant = "destructive"
  /\ ~modal.loading

====
